---------------------------- MODULE Spec2Model ----------------------------
(***************************************************************************)
(* Hamiltonian input types of the QmeQ example notebooks.                  *)
(*                                                                         *)
(* appendix/00_types.ipynb hands the single-particle Hamiltonian hsingle,  *)
(* the Coulomb terms coulomb and the tunneling amplitudes tleads to        *)
(* qmeq.Builder as a numpy array, a list or a dictionary; the builder      *)
(* keeps every one of them as a dictionary from an index tuple to a        *)
(* coefficient (system.qd.hsingle, system.qd.coulomb, system.leads.tleads) *)
(* and the single-particle Hamiltonian is assembled from the dictionary    *)
(* with the Hermitian conjugate of every off-diagonal element added.       *)
(*                                                                         *)
(* Coefficients are complex numbers with integer parts.  Energies are in   *)
(* units of 0.25 (vgate = 1.0 is 4, omega = 2.0 is 8, U = 20.0 is 80) and  *)
(* tunneling amplitudes in units of sqrt(0.5/(2*pi)), the notebook's t0.   *)
(***************************************************************************)
EXTENDS Integers, Sequences, FiniteSets

VARIABLES
    nsingle,       \* number of single particle states
    nleads,        \* number of lead channels
    hsingle,       \* Builder argument: [type, val]
    coulomb,       \* Builder argument: [type, val]
    tleads,        \* Builder argument: [type, val]
    qd_hsingle,    \* system.qd.hsingle
    qd_coulomb,    \* system.qd.coulomb
    leads_tleads,  \* system.leads.tleads
    ham,           \* single-particle Hamiltonian matrix assembled by solve()
    pc             \* "cell6" -> "built" -> "solved"

vars == <<nsingle, nleads, hsingle, coulomb, tleads,
          qd_hsingle, qd_coulomb, leads_tleads, ham, pc>>

---------------------------------------------------------------------------
(* Bounds of the model. *)

\* largest number of single particle states of a generated input
MaxN == 2
\* largest number of lead channels of a generated tunneling input
MaxLeads == 3
\* longest generated list, and most keys of a generated dictionary
MaxLen == 2

---------------------------------------------------------------------------
(* Complex coefficients. *)

Cx(r, i) == [re |-> r, im |-> i]

Zero == Cx(0, 0)

conjugate(c) == Cx(c.re, 0 - c.im)

Plus(c, d) == Cx(c.re + d.re, c.im + d.im)

\* a Python dictionary: a function from keys (index tuples) to coefficients
EmptyDict == [k \in {} |-> Zero]

Update(d, k, v) == [x \in (DOMAIN d) \cup {k} |-> IF x = k THEN v ELSE d[x]]

Get(d, k) == IF k \in DOMAIN d THEN d[k] ELSE Zero

Keys2(rows, cols) == (0 .. rows - 1) \X (0 .. cols - 1)

\* a list entry [i, j, c] or [i, j, k, l, c]: its index tuple and coefficient
EntryKey(e) == SubSeq(e, 1, Len(e) - 1)

EntryCoef(e) == e[Len(e)]

---------------------------------------------------------------------------
(* The notebook's parameters (cell 2) and the three forms of each term.    *)

\* gate voltage: the notebook's 1.0, and -0.25, which puts the up level at 0
VgateVals == {4, -1}

\* magnetic field 0.5
bfield == 2

\* spin-flip amplitude: the notebook's 2.0, none, and a complex one
OmegaVals == {Cx(8, 0), Zero, Cx(1, 1)}

\* charging energy 20.0
U == 80

\* tunneling amplitude sqrt(gam/(2*pi)): gam = 0.5 and gam = 0
T0Vals == {Cx(1, 0), Zero}

Array(m) == [type |-> "array", val |-> m]

List(s) == [type |-> "list", val |-> s]

Dict(d) == [type |-> "dict", val |-> d]

HsingleArray(vgate, omega) ==
    Array([k \in Keys2(2, 2) |->
              IF k = <<0, 0>> THEN Cx(vgate + bfield \div 2, 0)
              ELSE IF k = <<0, 1>> THEN omega
              ELSE IF k = <<1, 0>> THEN conjugate(omega)
              ELSE Cx(vgate - bfield \div 2, 0)])

HsingleList(vgate, omega) ==
    List(<< <<0, 0, Cx(vgate + bfield \div 2, 0)>>,
            <<1, 1, Cx(vgate - bfield \div 2, 0)>>,
            <<0, 1, omega>> >>)

HsingleDict(vgate, omega) ==
    Dict([k \in {<<0, 0>>, <<1, 1>>, <<0, 1>>} |->
              IF k = <<0, 0>> THEN Cx(vgate + bfield \div 2, 0)
              ELSE IF k = <<1, 1>> THEN Cx(vgate - bfield \div 2, 0)
              ELSE omega])

HsingleForms(vgate, omega) ==
    {HsingleArray(vgate, omega), HsingleList(vgate, omega),
     HsingleDict(vgate, omega)}

CoulombList == List(<< <<0, 1, 1, 0, Cx(U, 0)>> >>)

CoulombDict == Dict([k \in {<<0, 1, 1, 0>>} |-> Cx(U, 0)])

CoulombForms == {CoulombList, CoulombDict}

TleadsArray(t0) ==
    Array([k \in Keys2(4, 2) |->
              IF k \in {<<0, 0>>, <<1, 0>>, <<2, 1>>, <<3, 1>>}
              THEN t0 ELSE Zero])

TleadsList(t0) ==
    List(<< <<0, 0, t0>>, <<1, 0, t0>>, <<2, 1, t0>>, <<3, 1, t0>> >>)

TleadsDict(t0) ==
    Dict([k \in {<<0, 0>>, <<1, 0>>, <<2, 1>>, <<3, 1>>} |-> t0])

TleadsForms(t0) == {TleadsArray(t0), TleadsList(t0), TleadsDict(t0)}

---------------------------------------------------------------------------
(* Generated inputs. *)

\* coefficients of generated arrays
GenCoef == {Zero, Cx(1, 0), Cx(0, 1), Cx(0, -1)}

\* coefficients of generated lists and dictionaries
SparseCoef == {Zero, Cx(1, 1), Cx(1, -1)}

\* coefficients of generated tunneling terms
TCoef == {Zero, Cx(1, 0)}

\* Coulomb index tuples [j1, j2, j2, j1] over the pairs j1 < j2
CoulombKeys(n) ==
    {<<p[1], p[2], p[2], p[1]>> : p \in {q \in Keys2(n, n) : q[1] < q[2]}}

\* the entries [index tuple..., coefficient] a generated list draws from
Entries(keys, coefs) == {Append(k, c) : k \in keys, c \in coefs}

\* x is a numpy array over the places keys
IsArray(x, keys, coefs) == \E m \in [keys -> coefs] : x = Array(m)

\* x is a list of at most MaxLen entries
IsList(x, keys, coefs) ==
    \E len \in 0 .. MaxLen :
        \E s \in [1 .. len -> Entries(keys, coefs)] : x = List(s)

\* x is a dictionary of at most MaxLen keys
IsDict(x, keys, coefs) ==
    \E K \in SUBSET keys :
        /\ Cardinality(K) <= MaxLen
        /\ \E d \in [K -> coefs] : x = Dict(d)

---------------------------------------------------------------------------
(* The conversion of the Builder arguments to dictionaries. *)

\* ListToDict with the first entry of a key kept, not the last
RECURSIVE ListToDict_firstwins(_)
ListToDict_firstwins(lst) ==
    IF lst = <<>> THEN EmptyDict
    ELSE LET d == ListToDict_firstwins(Tail(lst))
         IN  Update(d, EntryKey(Head(lst)), EntryCoef(Head(lst)))

\* a list becomes a dictionary entry by entry, in the order of the list
RECURSIVE ListToDict(_)
ListToDict(lst) ==
    IF lst = <<>> THEN EmptyDict
    ELSE LET n == Len(lst)
         IN  Update(ListToDict(SubSeq(lst, 1, n - 1)),
                    EntryKey(lst[n]), EntryCoef(lst[n]))

\* ArrayToDict without the test for zero
ArrayToDict_keepzero(arr, places) == [k \in places |-> arr[k]]

\* the elements of a numpy array that are not zero, among the places given
ArrayToDict(arr, places) ==
    [k \in {q \in places : arr[q] /= Zero} |-> arr[k]]

\* UpperPlaces with j2 in range(nsingle)
AllPlaces(n) == Keys2(n, n)

\* the places j1, j2 of a square array with j2 in range(j1, nsingle)
UpperPlaces(n) == {k \in Keys2(n, n) : k[1] <= k[2]}

\* make_hsingle_dict with the zero entries of a dictionary dropped
make_hsingle_dict_dropzero(n, h) ==
    CASE h.type = "array" -> ArrayToDict(h.val, UpperPlaces(n))
      [] h.type = "list"  -> ListToDict(h.val)
      [] h.type = "dict"  ->
             [k \in {q \in DOMAIN h.val : h.val[q] /= Zero} |-> h.val[k]]

make_hsingle_dict(n, h) ==
    CASE h.type = "array" -> ArrayToDict(h.val, UpperPlaces(n))
      [] h.type = "list"  -> ListToDict(h.val)
      [] h.type = "dict"  -> h.val

make_coulomb_dict(c) ==
    CASE c.type = "list" -> ListToDict(c.val)
      [] c.type = "dict" -> c.val

\* make_tleads_dict with the places of the single-particle conversion
make_tleads_dict_upper(l, n, t) ==
    CASE t.type = "array" ->
             ArrayToDict(t.val, {k \in Keys2(l, n) : k[1] <= k[2]})
      [] t.type = "list"  -> ListToDict(t.val)
      [] t.type = "dict"  -> t.val

make_tleads_dict(l, n, t) ==
    CASE t.type = "array" -> ArrayToDict(t.val, Keys2(l, n))
      [] t.type = "list"  -> ListToDict(t.val)
      [] t.type = "dict"  -> t.val

\* construct_ham with the transposed element added as it is
construct_ham_noconj(n, d) ==
    [k \in Keys2(n, n) |->
        IF k[1] = k[2] THEN Get(d, k)
        ELSE Plus(Get(d, k), Get(d, <<k[2], k[1]>>))]

\* construct_ham with the conjugate added only where the element is absent
construct_ham_once(n, d) ==
    [k \in Keys2(n, n) |->
        IF k \in DOMAIN d THEN d[k]
        ELSE conjugate(Get(d, <<k[2], k[1]>>))]

\* the single-particle Hamiltonian: every element of the dictionary, and for
\* an off-diagonal element its complex conjugate at the transposed place
construct_ham(n, d) ==
    [k \in Keys2(n, n) |->
        IF k[1] = k[2] THEN Get(d, k)
        ELSE Plus(Get(d, k), conjugate(Get(d, <<k[2], k[1]>>)))]

---------------------------------------------------------------------------
(* The state machine. *)

NotebookInit ==
    /\ nsingle = 2
    /\ nleads = 4
    /\ \E vgate \in VgateVals, omega \in OmegaVals :
           hsingle \in HsingleForms(vgate, omega)
    /\ coulomb \in CoulombForms
    /\ \E t0 \in T0Vals : tleads \in TleadsForms(t0)

\* only hsingle is given
HsingleInit ==
    /\ nsingle \in 1 .. MaxN
    /\ nleads = 2 * nsingle
    /\ \/ IsArray(hsingle, Keys2(nsingle, nsingle), GenCoef)
       \/ IsList(hsingle, Keys2(nsingle, nsingle), SparseCoef)
       \/ IsDict(hsingle, Keys2(nsingle, nsingle), SparseCoef)
    /\ coulomb = List(<<>>)
    /\ tleads = Dict(EmptyDict)

CoulombInit ==
    /\ nsingle \in 2 .. MaxN
    /\ nleads = 2 * nsingle
    /\ hsingle = Dict(EmptyDict)
    /\ \/ IsList(coulomb, CoulombKeys(nsingle), SparseCoef)
       \/ IsDict(coulomb, CoulombKeys(nsingle), SparseCoef)
    /\ tleads = Dict(EmptyDict)

TleadsInit ==
    /\ nsingle \in 1 .. MaxN
    /\ nleads \in 1 .. MaxLeads
    /\ hsingle = Dict(EmptyDict)
    /\ coulomb = List(<<>>)
    /\ \/ IsArray(tleads, Keys2(nleads, nsingle), TCoef)
       \/ IsList(tleads, Keys2(nleads, nsingle), TCoef)
       \/ IsDict(tleads, Keys2(nleads, nsingle), TCoef)

Init ==
    /\ NotebookInit \/ HsingleInit \/ CoulombInit \/ TleadsInit
    /\ qd_hsingle = EmptyDict
    /\ qd_coulomb = EmptyDict
    /\ leads_tleads = EmptyDict
    /\ ham = EmptyDict
    /\ pc = "cell6"

\* system = qmeq.Builder(nsingle, hsingle, coulomb, nleads, tleads, ...)
Builder ==
    /\ pc = "cell6"
    /\ qd_hsingle' = make_hsingle_dict(nsingle, hsingle)
    /\ qd_coulomb' = make_coulomb_dict(coulomb)
    /\ leads_tleads' = make_tleads_dict(nleads, nsingle, tleads)
    /\ pc' = "built"
    /\ UNCHANGED <<nsingle, nleads, hsingle, coulomb, tleads, ham>>

\* system.solve()
Solve ==
    /\ pc = "built"
    /\ ham' = construct_ham(nsingle, qd_hsingle)
    /\ pc' = "solved"
    /\ UNCHANGED <<nsingle, nleads, hsingle, coulomb, tleads,
                   qd_hsingle, qd_coulomb, leads_tleads>>

Next == Builder \/ Solve

Spec == Init /\ [][Next]_vars

---------------------------------------------------------------------------
(* Vocabulary of the properties. *)

\* the Builder call has returned a system
Built == pc \in {"built", "solved"}

NonZeroPlaces(arr) == {k \in DOMAIN arr : arr[k] /= Zero}

\* m is a Hermitian n x n array
Hermitian(m, n) ==
    \A k \in Keys2(n, n) : m[<<k[2], k[1]>>] = conjugate(m[k])

\* the dense n x n matrix of a dictionary, an absent key read as zero
ToDense(n, d) == [k \in Keys2(n, n) |-> Get(d, k)]

\* the dictionary d holds the keys and coefficients of the list lst, a key
\* given several times with the coefficient of its last entry
LastWins(d, lst) ==
    /\ DOMAIN d = {EntryKey(lst[p]) : p \in 1 .. Len(lst)}
    /\ \A p \in 1 .. Len(lst) :
           (\A q \in p + 1 .. Len(lst) : EntryKey(lst[q]) /= EntryKey(lst[p]))
               => d[EntryKey(lst[p])] = EntryCoef(lst[p])

NoZero(d) == \A k \in DOMAIN d : d[k] /= Zero

\* the index tuples an input names
InputKeys(x) ==
    CASE x.type = "array" -> DOMAIN x.val
      [] x.type = "list"  -> {EntryKey(x.val[p]) : p \in 1 .. Len(x.val)}
      [] x.type = "dict"  -> DOMAIN x.val

---------------------------------------------------------------------------
(* C1 *)

\* C1 as stated: the dictionary of a dense single-particle array holds
\* exactly the places of its nonzero elements, with their values.
C1_AllNonZeroPlaces ==
    (Built /\ hsingle.type = "array") =>
        /\ DOMAIN qd_hsingle = NonZeroPlaces(hsingle.val)
        /\ \A k \in DOMAIN qd_hsingle : qd_hsingle[k] = hsingle.val[k]

\* C1, amended: the dictionary of a dense single-particle array holds exactly
\* the places (i, j) with i <= j whose element is not zero, with their
\* values; no element below the diagonal gets a key.
C1_UpperNonZeroPlaces ==
    (Built /\ hsingle.type = "array") =>
        /\ DOMAIN qd_hsingle =
               {k \in NonZeroPlaces(hsingle.val) : k[1] <= k[2]}
        /\ \A k \in DOMAIN qd_hsingle : qd_hsingle[k] = hsingle.val[k]

C1_Witness ==
    /\ Built
    /\ hsingle.type = "array"
    /\ \E k \in NonZeroPlaces(hsingle.val) :
           /\ k[1] < k[2]
           /\ hsingle.val[<<k[2], k[1]>>] /= Zero
           /\ k \in DOMAIN qd_hsingle
    /\ \E k \in DOMAIN hsingle.val : k[1] <= k[2] /\ hsingle.val[k] = Zero

---------------------------------------------------------------------------
(* C2 *)

\* C2: for a Hermitian dense single-particle array with a nonzero
\* off-diagonal pair the dictionary holds the key (i, j) with i < j and not
\* the key (j, i); the array [[1.25, 2.0], [2.0, 0.75]] becomes exactly
\* {(0,0): 1.25, (0,1): 2.0, (1,1): 0.75}.
C2_HermitianUpperKeyOnly ==
    (Built /\ hsingle.type = "array" /\ Hermitian(hsingle.val, nsingle)) =>
        /\ \A k \in NonZeroPlaces(hsingle.val) :
               k[1] < k[2] =>
                   /\ k \in DOMAIN qd_hsingle
                   /\ qd_hsingle[k] = hsingle.val[k]
                   /\ <<k[2], k[1]>> \notin DOMAIN qd_hsingle
        /\ hsingle = HsingleArray(4, Cx(8, 0)) =>
               /\ DOMAIN qd_hsingle = {<<0, 0>>, <<0, 1>>, <<1, 1>>}
               /\ qd_hsingle[<<0, 0>>] = Cx(5, 0)
               /\ qd_hsingle[<<0, 1>>] = Cx(8, 0)
               /\ qd_hsingle[<<1, 1>>] = Cx(3, 0)

C2_Witness ==
    /\ Built
    /\ hsingle = HsingleArray(4, Cx(8, 0))
    /\ hsingle.val[<<1, 0>>] = Cx(8, 0)
    /\ <<0, 1>> \in DOMAIN qd_hsingle

---------------------------------------------------------------------------
(* C3 *)

\* C3: a dictionary given as the single-particle input is the dictionary of
\* the system: the same keys with the same coefficients, an entry whose
\* coefficient is zero included.
C3_DictKept ==
    (Built /\ hsingle.type = "dict") => qd_hsingle = hsingle.val

C3_Witness ==
    /\ Built
    /\ hsingle.type = "dict"
    /\ \E k \in DOMAIN hsingle.val : hsingle.val[k] = Zero
    /\ \E k \in DOMAIN hsingle.val : hsingle.val[k] /= Zero
    /\ \E k \in DOMAIN qd_hsingle : qd_hsingle[k] = Zero

---------------------------------------------------------------------------
(* C4 *)

\* C4 as stated: no dictionary of the system holds a coefficient that is
\* zero, whatever the type of the input.
C4_NeverZero ==
    Built => NoZero(qd_hsingle) /\ NoZero(qd_coulomb) /\ NoZero(leads_tleads)

\* C4, amended: the dictionary made from a dense array (single-particle or
\* tunneling) holds no coefficient that is zero.
C4_ArrayNeverZero ==
    Built =>
        /\ hsingle.type = "array" => NoZero(qd_hsingle)
        /\ tleads.type = "array" => NoZero(leads_tleads)

C4_Witness ==
    /\ Built
    /\ hsingle.type = "array"
    /\ tleads.type = "array"
    /\ \E k \in DOMAIN hsingle.val : k[1] <= k[2] /\ hsingle.val[k] = Zero
    /\ \E k \in DOMAIN tleads.val : tleads.val[k] = Zero
    /\ qd_hsingle /= EmptyDict
    /\ leads_tleads /= EmptyDict

---------------------------------------------------------------------------
(* C5 *)

\* C5: the dictionary made from a list (triplets for hsingle and tleads,
\* quintuples for coulomb) has one key for every index tuple of the list,
\* with the coefficient of the last entry that carries it;
\* [[0,1,1,0,20.0]] becomes {(0,1,1,0): 20.0}.
C5_ListLastWins ==
    Built =>
        /\ hsingle.type = "list" => LastWins(qd_hsingle, hsingle.val)
        /\ coulomb.type = "list" => LastWins(qd_coulomb, coulomb.val)
        /\ tleads.type = "list" => LastWins(leads_tleads, tleads.val)
        /\ coulomb = CoulombList =>
               /\ DOMAIN qd_coulomb = {<<0, 1, 1, 0>>}
               /\ qd_coulomb[<<0, 1, 1, 0>>] = Cx(80, 0)

C5_Witness ==
    /\ Built
    /\ hsingle.type = "list"
    /\ Len(hsingle.val) = 2
    /\ EntryKey(hsingle.val[1]) = EntryKey(hsingle.val[2])
    /\ EntryCoef(hsingle.val[1]) /= EntryCoef(hsingle.val[2])
    /\ qd_hsingle[EntryKey(hsingle.val[1])] = EntryCoef(hsingle.val[2])

---------------------------------------------------------------------------
(* C7 *)

\* C7 as stated: for a Hermitian dense array M the dense matrix rebuilt from
\* the dictionary alone, an absent key read as zero, is M.
C7_RoundTripZeroFill ==
    (Built /\ hsingle.type = "array" /\ Hermitian(hsingle.val, nsingle)) =>
        ToDense(nsingle, qd_hsingle) = hsingle.val

\* C7, amended: for a Hermitian dense array M the dense matrix rebuilt from
\* the dictionary with an absent key read as zero is M on and above the
\* diagonal and zero below it; with the complex conjugate of every
\* off-diagonal entry added at the transposed place, as the Hamiltonian is
\* assembled, it is M in every element.
C7_RoundTripConjugate ==
    (Built /\ hsingle.type = "array" /\ Hermitian(hsingle.val, nsingle)) =>
        /\ \A k \in Keys2(nsingle, nsingle) :
               ToDense(nsingle, qd_hsingle)[k] =
                   IF k[1] <= k[2] THEN hsingle.val[k] ELSE Zero
        /\ pc = "solved" => ham = hsingle.val

C7_Witness ==
    /\ pc = "solved"
    /\ hsingle.type = "array"
    /\ Hermitian(hsingle.val, nsingle)
    /\ \E k \in DOMAIN hsingle.val :
           /\ k[1] < k[2]
           /\ hsingle.val[k].im /= 0
           /\ ham[<<k[2], k[1]>>] = conjugate(hsingle.val[k])
           /\ <<k[2], k[1]>> \notin DOMAIN qd_hsingle

---------------------------------------------------------------------------
(* C8 *)

\* C8 as stated: the array, the list and the dictionary the notebook gives
\* for one term become the same dictionary, for hsingle (elements a, b on
\* the diagonal, w above it) and for tleads (amplitude t0).
C8_FormsAgree ==
    Built =>
        /\ \A vgate \in VgateVals, omega \in OmegaVals :
               hsingle \in HsingleForms(vgate, omega) =>
                   qd_hsingle = HsingleDict(vgate, omega).val
        /\ \A t0 \in T0Vals :
               tleads \in TleadsForms(t0) =>
                   leads_tleads = TleadsDict(t0).val

\* C8, amended: the three forms become the same dictionary when the
\* elements a, b, w and the amplitude t0 are not zero, as in the notebook.
C8_NonZeroFormsAgree ==
    Built =>
        /\ \A vgate \in VgateVals, omega \in OmegaVals :
               (/\ hsingle \in HsingleForms(vgate, omega)
                /\ NoZero(HsingleDict(vgate, omega).val)) =>
                   qd_hsingle = HsingleDict(vgate, omega).val
        /\ \A t0 \in T0Vals :
               (tleads \in TleadsForms(t0) /\ t0 /= Zero) =>
                   leads_tleads = TleadsDict(t0).val

C8_Witness ==
    /\ Built
    /\ hsingle = HsingleArray(4, Cx(1, 1))
    /\ tleads = TleadsArray(Cx(1, 0))
    /\ qd_hsingle = HsingleDict(4, Cx(1, 1)).val
    /\ leads_tleads = TleadsDict(Cx(1, 0)).val

---------------------------------------------------------------------------
(* C9 *)

\* C9: the dictionary of a dense nleads x nsingle tunneling array holds
\* exactly the places (lead, orbital) of its nonzero elements, with their
\* values, and no transposed key; the notebook's 4 x 2 array gives the keys
\* (0,0), (1,0), (2,1), (3,1).
C9_TleadsAllNonZeroPlaces ==
    (Built /\ tleads.type = "array") =>
        /\ DOMAIN tleads.val = Keys2(nleads, nsingle)
        /\ DOMAIN leads_tleads = NonZeroPlaces(tleads.val)
        /\ \A k \in DOMAIN leads_tleads : leads_tleads[k] = tleads.val[k]
        /\ tleads = TleadsArray(Cx(1, 0)) =>
               DOMAIN leads_tleads = {<<0, 0>>, <<1, 0>>, <<2, 1>>, <<3, 1>>}

C9_Witness ==
    /\ Built
    /\ nleads = 4
    /\ nsingle = 2
    /\ tleads = TleadsArray(Cx(1, 0))
    /\ <<1, 0>> \in DOMAIN leads_tleads
    /\ <<0, 1>> \notin DOMAIN leads_tleads

---------------------------------------------------------------------------
(* C10 *)

\* C10: from a single-particle list or dictionary that gives both (i, j) and
\* (j, i), i /= j, the Builder call returns a system that keeps both entries
\* as given; the assembled Hamiltonian adds the conjugate of each to the
\* other, so {(0,1): w, (1,0): conj(w)} couples 0 and 1 with 2w.
C10_BothKeysDoubleCount ==
    (Built /\ hsingle.type \in {"list", "dict"}) =>
        \A k \in InputKeys(hsingle) :
            (k[1] /= k[2] /\ <<k[2], k[1]>> \in InputKeys(hsingle)) =>
                /\ k \in DOMAIN qd_hsingle
                /\ hsingle.type = "dict" => qd_hsingle[k] = hsingle.val[k]
                /\ hsingle.type = "list" =>
                       \E p \in 1 .. Len(hsingle.val) :
                           /\ EntryKey(hsingle.val[p]) = k
                           /\ EntryCoef(hsingle.val[p]) = qd_hsingle[k]
                /\ pc = "solved" =>
                       /\ ham[k] = Plus(qd_hsingle[k],
                                        conjugate(qd_hsingle[<<k[2], k[1]>>]))
                       /\ qd_hsingle[<<k[2], k[1]>>] = conjugate(qd_hsingle[k])
                              => ham[k] = Plus(qd_hsingle[k], qd_hsingle[k])

C10_Witness ==
    /\ pc = "solved"
    /\ hsingle.type = "dict"
    /\ DOMAIN hsingle.val = {<<0, 1>>, <<1, 0>>}
    /\ hsingle.val[<<0, 1>>] = Cx(1, 1)
    /\ hsingle.val[<<1, 0>>] = Cx(1, -1)
    /\ ham[<<0, 1>>] = Cx(2, 2)

====
